---- MODULE Spec2Model ----
(***************************************************************************)
(* A model of the TinyLlama assistant (app.py) and of its OLED expression  *)
(* controller (oled_display.py).                                           *)
(*                                                                         *)
(* Texts are sequences of one-character strings, so that strip, split,     *)
(* lower, substring containment and length are computed as Python computes *)
(* them.                                                                   *)
(***************************************************************************)
EXTENDS Integers, Sequences, FiniteSets, TLC

VARIABLES
    prompts_db,     \* AIAssistant.prompts_db: the knowledge-base table
    model,          \* AIAssistant.model is not None
    oled,           \* AIAssistant.oled is not None
    chat_history,   \* AIAssistant.chat_history: the in-memory window
    file,           \* database/history.json: [state, recs]
    now,            \* the clock datetime.now() reads
    pending,        \* the request waiting to be handled (sequential handlers)
    reply,          \* what the last handled request returned to its caller
    listed,         \* what the last GET /history returned
    gen_calls,      \* number of create_chat_completion calls made so far
    appended,       \* every exchange add_to_history was called with, in order
    thr,            \* the request threads: where each is, and its locals
    taken,          \* number of requests the threads have taken
    current_expression, \* OLEDDisplay.current_expression
    stop_animation,     \* OLEDDisplay.stop_animation
    animation_thread,   \* OLEDDisplay.animation_thread (whose animation it is)
    anim,           \* the animation threads: unborn, check, render, asleep or dead
    shown,          \* the frame last rendered on the display
    req,            \* the requests driving the display: phase, call, events
    tim,            \* the idle timers the requests start
    obs             \* what has been observed of the renderings so far

(***************************************************************************)
(* Threads, requests and groups of variables                               *)
(***************************************************************************)
\* The request threads: Flask's (threaded=True) and the terminal thread.
Threads == {"web1", "web2", "term"}

\* A thread that is handling no request.
IdleThread ==
    [pc |-> "idle", input |-> <<>>, messages |-> <<>>, response |-> <<>>,
     entry_id |-> 0, history |-> <<>>, window |-> <<>>]

\* The variables of the assistant, of the handlers run to their end, of the
\* threads, and of the display.
appVars == <<prompts_db, model, oled, chat_history, file, now, gen_calls, appended>>
seqVars == <<pending, reply, listed>>
concVars == <<thr, taken>>
dispVars == <<current_expression, stop_animation, animation_thread, anim, shown,
              req, tim, obs>>

vars == <<appVars, seqVars, concVars, dispVars>>

\* The two request sources: a POST /chat and a line typed at the terminal.
Requests == {"web", "term"}

\* A show_expression call: its argument, where it is (enter, check, act,
\* returned), the animation thread it found running at line 117, and whether
\* the join began too late in that thread's sleep to time out before it ends.
NoCall == [expr |-> "none", step |-> "returned", joinee |-> "none", late |-> FALSE]
CallOf(expr) == [expr |-> expr, step |-> "enter", joinee |-> "none", late |-> FALSE]

\* Nothing drives the display.
InitDisplayIdle ==
    /\ anim = [a \in Requests |-> "unborn"]
    /\ req = [r \in Requests |->
                 [phase |-> "new", call |-> NoCall, spoke |-> FALSE, emitted |-> <<>>]]
    /\ tim = [r \in Requests |-> [phase |-> "off", call |-> NoCall]]
    /\ obs = [raced |-> FALSE, late |-> FALSE, overrode |-> FALSE, latest |-> "none"]

\* OLEDDisplay.__init__ was not run: the display is not available.
InitNoDisplay ==
    /\ oled = FALSE
    /\ current_expression = "idle"
    /\ stop_animation = FALSE
    /\ animation_thread = "none"
    /\ shown = "none"
    /\ InitDisplayIdle

(***************************************************************************)
(* Texts                                                                   *)
(***************************************************************************)
SP == " "
DOT == "."

\* str.lower() on one character: the upper-case letters and their lower case.
LowerOf ==
    ("A" :> "a") @@ ("B" :> "b") @@ ("C" :> "c") @@ ("D" :> "d") @@
    ("E" :> "e") @@ ("F" :> "f") @@ ("G" :> "g") @@ ("H" :> "h") @@
    ("I" :> "i") @@ ("J" :> "j") @@ ("K" :> "k") @@ ("L" :> "l") @@
    ("M" :> "m") @@ ("N" :> "n") @@ ("O" :> "o") @@ ("P" :> "p") @@
    ("Q" :> "q") @@ ("R" :> "r") @@ ("S" :> "s") @@ ("T" :> "t") @@
    ("U" :> "u") @@ ("V" :> "v") @@ ("W" :> "w") @@ ("X" :> "x") @@
    ("Y" :> "y") @@ ("Z" :> "z")

LowerChar(c) == IF c \in DOMAIN LowerOf THEN LowerOf[c] ELSE c

\* str.lower()
Lower(t) == [i \in 1..Len(t) |-> LowerChar(t[i])]

\* Whether pat occurs in t at position i.
OccursAt(pat, t, i) ==
    /\ i + Len(pat) - 1 <= Len(t)
    /\ \A k \in 1..Len(pat) : t[i + k - 1] = pat[k]

\* Python's  pat in t  on strings (the empty string is in every string).
Contains(t, pat) == \E i \in 1..(Len(t) + 1) : OccursAt(pat, t, i)

RECURSIVE LStrip(_)
LStrip(t) == IF t # <<>> /\ Head(t) = SP THEN LStrip(Tail(t)) ELSE t

RECURSIVE RStrip(_)
RStrip(t) ==
    IF t # <<>> /\ t[Len(t)] = SP THEN RStrip(SubSeq(t, 1, Len(t) - 1)) ELSE t

\* The message taken as it comes, without str.strip().
Strip_Missing(t) == t

\* str.strip()
Strip(t) == RStrip(LStrip(t))

\* str.split(sep): the pieces between the non-overlapping occurrences of sep,
\* found from the left; cur is the piece being read.
RECURSIVE SplitOn(_, _, _)
SplitOn(t, sep, cur) ==
    IF t = <<>> THEN <<cur>>
    ELSE IF OccursAt(sep, t, 1)
         THEN <<cur>> \o SplitOn(SubSeq(t, Len(sep) + 1, Len(t)), sep, <<>>)
         ELSE SplitOn(Tail(t), sep, Append(cur, Head(t)))

\* str.split(): the maximal runs of non-whitespace characters.
RECURSIVE Words(_, _)
Words(t, cur) ==
    IF t = <<>> THEN (IF cur = <<>> THEN <<>> ELSE <<cur>>)
    ELSE IF Head(t) = SP
         THEN (IF cur = <<>> THEN <<>> ELSE <<cur>>) \o Words(Tail(t), <<>>)
         ELSE Words(Tail(t), Append(cur, Head(t)))

\* sep.join(parts)
RECURSIVE Join(_, _)
Join(parts, sep) ==
    IF parts = <<>> THEN <<>>
    ELSE IF Len(parts) = 1 THEN parts[1]
    ELSE parts[1] \o sep \o Join(Tail(parts), sep)

\* str.endswith('.')
EndsWithDot(t) == t # <<>> /\ t[Len(t)] = DOT

(***************************************************************************)
(* The vocabulary of the model: a few words, and the texts built of them.  *)
(***************************************************************************)
W_hi == <<"h", "i">>
W_Hi == <<"H", "i">>
W_hii == <<"h", "i", "i">>
\* "tell me jokes": 13 characters, so that "tell me jokes." has 14 and
\* "tell me jokes.." has 15.
W_long == <<"t", "e", "l", "l", " ", "m", "e", " ", "j", "o", "k", "e", "s">>

InPieces == {W_hi, W_Hi, W_hii, <<SP>>, <<DOT>>, W_long}
OutPieces == {W_hi, <<SP>>, <<DOT>>, W_long}

\* The number of pieces of a request message, and of a raw model output.
MaxInPieces == 2
MaxOutPieces == 2

RECURSIVE Concats(_, _)
Concats(pieces, n) ==
    IF n = 0 THEN {<<>>}
    ELSE LET shorter == Concats(pieces, n - 1)
         IN  shorter \cup {s \o p : s \in shorter, p \in pieces}

\* Longer texts the bounded concatenations do not reach.
LongInputs ==
    { W_long \o <<DOT, DOT>>,
      W_long \o <<DOT, DOT, DOT>>,
      W_hi \o <<SP>> \o W_long \o <<DOT, DOT>>,
      W_long \o <<DOT, DOT, SP>> \o W_Hi,
      <<SP>> \o W_hii \o <<SP, SP>> \o W_Hi \o <<SP>> }

LongOutputs ==
    { W_long \o <<DOT, DOT>>,
      <<SP>> \o W_long \o <<DOT, DOT, SP>>,
      W_hi \o <<SP>> \o W_long \o <<DOT, DOT, SP>> \o W_hi,
      W_long \o <<DOT, SP>> \o W_long \o <<DOT, SP>> \o W_hi \o <<DOT, SP>> \o W_hi,
      W_hi \o <<DOT, SP>> \o W_hi \o <<DOT, SP>> \o W_long \o <<DOT, SP>> \o W_hi \o <<DOT>>,
      <<DOT, SP, DOT, SP, DOT, SP>> \o W_long \o W_long }

Messages == Concats(InPieces, MaxInPieces) \cup LongInputs
RawOutputs == Concats(OutPieces, MaxOutPieces) \cup LongOutputs

(***************************************************************************)
(* The fixed strings of generate_response, character by character.         *)
(***************************************************************************)
\* Could you clarify or provide more details for a better response?
Clarification ==
    <<"C", "o", "u", "l", "d", " ", "y", "o", "u", " ", "c", "l", "a", "r",
      "i", "f", "y", " ", "o", "r", " ", "p", "r", "o", "v", "i", "d", "e",
      " ", "m", "o", "r", "e", " ", "d", "e", "t", "a", "i", "l", "s", " ",
      "f", "o", "r", " ", "a", " ", "b", "e", "t", "t", "e", "r", " ", "r",
      "e", "s", "p", "o", "n", "s", "e", "?">>

\* The system instruction of line 131: "You are a helpful and concise AI
\* assistant running on a Raspberry Pi. ..."
SystemInstruction ==
    <<"Y", "o", "u", " ", "a", "r", "e", " ", "a", " ", "h", "e", "l", "p",
      "f", "u", "l", " ", "a", "n", "d", " ", "c", "o", "n", "c", "i", "s",
      "e", " ", "A", "I", " ", "a", "s", "s", "i", "s", "t", "a", "n", "t",
      " ", "r", "u", "n", "n", "i", "n", "g", " ", "o", "n", " ", "a", " ",
      "R", "a", "s", "p", "b", "e", "r", "r", "y", " ", "P", "i", ".", " ",
      "P", "r", "o", "v", "i", "d", "e", " ", "a", "c", "c", "u", "r", "a",
      "t", "e", ",", " ", "r", "e", "l", "e", "v", "a", "n", "t", " ", "a",
      "n", "s", "w", "e", "r", "s", " ", "i", "n", " ", "1", "-", "3", " ",
      "s", "e", "n", "t", "e", "n", "c", "e", "s", ".", " ", "I", "f", " ",
      "t", "h", "e", " ", "i", "n", "p", "u", "t", " ", "c", "o", "n", "t",
      "a", "i", "n", "s", " ", "t", "y", "p", "o", "s", ",", " ", "r", "e",
      "s", "p", "o", "n", "d", " ", "t", "o", " ", "t", "h", "e", " ", "c",
      "o", "r", "r", "e", "c", "t", "e", "d", " ", "i", "n", "t", "e", "n",
      "t", ".">>

\* I apologize, but I encountered an error while processing your request.
Apology ==
    <<"I", " ", "a", "p", "o", "l", "o", "g", "i", "z", "e", ",", " ", "b",
      "u", "t", " ", "I", " ", "e", "n", "c", "o", "u", "n", "t", "e", "r",
      "e", "d", " ", "a", "n", " ", "e", "r", "r", "o", "r", " ", "w", "h",
      "i", "l", "e", " ", "p", "r", "o", "c", "e", "s", "s", "i", "n", "g",
      " ", "y", "o", "u", "r", " ", "r", "e", "q", "u", "e", "s", "t", ".">>

\* I'm here to help! However, the AI model isn't loaded yet.
Fallback1 ==
    <<"I", "'", "m", " ", "h", "e", "r", "e", " ", "t", "o", " ", "h", "e",
      "l", "p", "!", " ", "H", "o", "w", "e", "v", "e", "r", ",", " ", "t",
      "h", "e", " ", "A", "I", " ", "m", "o", "d", "e", "l", " ", "i", "s",
      "n", "'", "t", " ", "l", "o", "a", "d", "e", "d", " ", "y", "e", "t",
      ".">>

\* That's an interesting question! The AI model is currently unavailable.
Fallback2 ==
    <<"T", "h", "a", "t", "'", "s", " ", "a", "n", " ", "i", "n", "t", "e",
      "r", "e", "s", "t", "i", "n", "g", " ", "q", "u", "e", "s", "t", "i",
      "o", "n", "!", " ", "T", "h", "e", " ", "A", "I", " ", "m", "o", "d",
      "e", "l", " ", "i", "s", " ", "c", "u", "r", "r", "e", "n", "t", "l",
      "y", " ", "u", "n", "a", "v", "a", "i", "l", "a", "b", "l", "e", ".">>

\* I'd love to help with that, but I'm running in fallback mode right now.
Fallback3 ==
    <<"I", "'", "d", " ", "l", "o", "v", "e", " ", "t", "o", " ", "h", "e",
      "l", "p", " ", "w", "i", "t", "h", " ", "t", "h", "a", "t", ",", " ",
      "b", "u", "t", " ", "I", "'", "m", " ", "r", "u", "n", "n", "i", "n",
      "g", " ", "i", "n", " ", "f", "a", "l", "l", "b", "a", "c", "k", " ",
      "m", "o", "d", "e", " ", "r", "i", "g", "h", "t", " ", "n", "o", "w",
      ".">>

\* Great question! Please make sure the AI model is properly installed.
Fallback4 ==
    <<"G", "r", "e", "a", "t", " ", "q", "u", "e", "s", "t", "i", "o", "n",
      "!", " ", "P", "l", "e", "a", "s", "e", " ", "m", "a", "k", "e", " ",
      "s", "u", "r", "e", " ", "t", "h", "e", " ", "A", "I", " ", "m", "o",
      "d", "e", "l", " ", "i", "s", " ", "p", "r", "o", "p", "e", "r", "l",
      "y", " ", "i", "n", "s", "t", "a", "l", "l", "e", "d", ".">>

(***************************************************************************)
(* Lexical normaliser and knowledge-base matcher                           *)
(***************************************************************************)
\* spell.correction(w) if spell.correction(w) else w: the spell checker
\* compares in lower case and answers a known word; "hii" is the one
\* misspelling of the vocabulary, every other word is left as it is.
Correction(w) == IF Lower(w) = W_hii THEN W_hi ELSE w

\* fix_typo(text)
fix_typo(text) ==
    LET words == Words(text, <<>>)
    IN  Join([i \in 1..Len(words) |-> Correction(words[i])], <<SP>>)

\* The value None, a value that is a text, and no value at all: the lookup
\* raised (KeyError on an entry that lacks "prompt" or "response").
None == [found |-> FALSE, response |-> <<>>, raised |-> FALSE]
Some(t) == [found |-> TRUE, response |-> t, raised |-> FALSE]
LookupRaises == [found |-> FALSE, response |-> <<>>, raised |-> TRUE]

\* The first entry, from position i on, whose lowered prompt contains needle.
RECURSIVE FirstMatch(_, _, _)
FirstMatch(db, needle, i) ==
    IF i > Len(db) THEN None
    ELSE IF "prompt" \notin DOMAIN db[i] THEN LookupRaises
    ELSE IF Contains(Lower(db[i].prompt), needle)
    THEN IF "response" \in DOMAIN db[i] THEN Some(db[i].response) ELSE LookupRaises
    ELSE FirstMatch(db, needle, i + 1)

\* AIAssistant.get_prompt_from_db(user_input)
get_prompt_from_db(db, user_input) ==
    FirstMatch(db, fix_typo(Lower(user_input)), 1)

\* Python's truth value of get_prompt_from_db's result: None and "" are false.
Truthy(v) == v.found /\ v.response # <<>>

(***************************************************************************)
(* Response generator                                                      *)
(***************************************************************************)
\* The sentence limit of the clean-up, and the length under which a
\* response is too short.
MaxSentences == 3
MinResponseLen == 15

\* Lines 153-160: strip, keep the first three sentences, end with a period.
CleanUp(raw) ==
    LET stripped == Strip(raw)
        sentences == SplitOn(stripped, <<DOT, SP>>, <<>>)
        trimmed == IF Len(sentences) > MaxSentences
                   THEN Join(SubSeq(sentences, 1, MaxSentences), <<DOT, SP>>) \o <<DOT>>
                   ELSE stripped
    IN  IF EndsWithDot(trimmed) THEN trimmed ELSE trimmed \o <<DOT>>

\* Line 163: the response is too similar to the input, or too short.
TooSimilarOrShort(cleaned_input, ai_response) ==
    \/ Contains(Lower(ai_response), Lower(cleaned_input))
    \/ Len(ai_response) < MinResponseLen

\* Lines 153-164: what the model branch makes of the raw generated text.
PostProcess(cleaned_input, raw) ==
    LET ai_response == CleanUp(raw)
    IN  IF TooSimilarOrShort(cleaned_input, ai_response)
        THEN Clarification
        ELSE ai_response

fallback_responses == <<Fallback1, Fallback2, Fallback3, Fallback4>>

\* Lines 167-173.
FallbackResponse(cleaned_input) ==
    fallback_responses[(Len(cleaned_input) % Len(fallback_responses)) + 1]

\* What create_chat_completion does: it raises, it returns a text, or it
\* returns a value from which line 153 cannot take a text (no choices, or a
\* content that is None), so that the post-processing raises.
Raises == [raises |-> TRUE, text |-> <<>>, content |-> FALSE]
Returns(t) == [raises |-> FALSE, text |-> t, content |-> TRUE]
ReturnsNoContent == [raises |-> FALSE, text |-> <<>>, content |-> FALSE]
Completions == {Raises, ReturnsNoContent} \cup {Returns(t) : t \in RawOutputs}

\* The number of exchanges of the window given to the model as context.
ContextExchanges == 2

\* chat_history[:2] instead: the two oldest exchanges of the window.
RecentExchanges_Oldest(history) ==
    IF Len(history) <= ContextExchanges THEN history
    ELSE SubSeq(history, 1, ContextExchanges)

\* chat_history[-2:]
RecentExchanges(history) ==
    IF Len(history) <= ContextExchanges THEN history
    ELSE SubSeq(history, Len(history) - ContextExchanges + 1, Len(history))

Message(role, content) == [role |-> role, content |-> content]

\* Lines 135-137: the loop that appends a user and an assistant message for
\* each entry.
RECURSIVE Turns(_)
Turns(entries) ==
    IF entries = <<>> THEN <<>>
    ELSE << Message("user", Head(entries).user),
            Message("assistant", Head(entries).assistant) >>
         \o Turns(Tail(entries))

\* Lines 128-140: the messages given to create_chat_completion.
BuildMessages(history, cleaned_input) ==
    << Message("system", SystemInstruction) >>
        \o Turns(RecentExchanges(history))
        \o << Message("user", cleaned_input) >>

\* Lines 120-173 of generate_response: the branch taken (kb, model,
\* fallback), whether it raised, the messages given to the model, the raw
\* text the model returned and the response resolved; history is the window
\* and out is what the generation call does if it is made.
Resolve(db, loaded, history, user_input, out) ==
    LET cleaned_input == fix_typo(user_input)
        db_response == get_prompt_from_db(db, cleaned_input)
    IN  IF db_response.raised
        THEN [branch |-> "kb", raised |-> TRUE, messages |-> <<>>, raw |-> <<>>,
              response |-> <<>>]
        ELSE IF Truthy(db_response)
        THEN [branch |-> "kb", raised |-> FALSE, messages |-> <<>>, raw |-> <<>>,
              response |-> db_response.response]
        ELSE IF loaded
        THEN IF out.raises \/ ~out.content
             THEN [branch |-> "model", raised |-> TRUE,
                   messages |-> BuildMessages(history, cleaned_input),
                   raw |-> <<>>, response |-> <<>>]
             ELSE [branch |-> "model", raised |-> FALSE,
                   messages |-> BuildMessages(history, cleaned_input),
                   raw |-> out.text,
                   response |-> PostProcess(cleaned_input, out.text)]
        ELSE [branch |-> "fallback", raised |-> FALSE, messages |-> <<>>,
              raw |-> <<>>, response |-> FallbackResponse(cleaned_input)]

(***************************************************************************)
(* Conversation history store                                              *)
(***************************************************************************)
\* The capacity of the in-memory window.
HistoryCap == 50

\* add_to_history keeping the first 50 (chat_history[:50]) instead of the last.
add_to_history_KeepOldest(history, exchange) ==
    LET longer == Append(history, exchange)
    IN  IF Len(longer) > HistoryCap THEN SubSeq(longer, 1, HistoryCap) ELSE longer

\* AIAssistant.add_to_history, on the list.
add_to_history(history, exchange) ==
    LET longer == Append(history, exchange)
    IN  IF Len(longer) > HistoryCap
        THEN SubSeq(longer, Len(longer) - HistoryCap + 1, Len(longer))
        ELSE longer

Exchange(ts, user_input, ai_response) ==
    [timestamp |-> ts, user |-> user_input, assistant |-> ai_response]

\* Line 204-208: the record save_to_history builds.
history_entry(history, user_input, ai_response) ==
    [id |-> Len(history) + 1, prompt |-> user_input, response |-> ai_response]

\* history.json as json.load sees it: a list, or a file that cannot be opened
\* or parsed.
FileOf(recs) == [state |-> "ok", recs |-> recs]
MissingFile == [state |-> "missing", recs |-> <<>>]

\* AIAssistant.save_to_history run to its end by one thread: an exception of
\* open or json.load is caught and nothing is recorded.
SaveToHistory(user_input, ai_response) ==
    IF file.state = "ok"
    THEN /\ file' = FileOf(Append(file.recs,
                       history_entry(chat_history, user_input, ai_response)))
         /\ chat_history' = add_to_history(chat_history,
                                Exchange(now, user_input, ai_response))
         /\ appended' = Append(appended, Exchange(now, user_input, ai_response))
         /\ now' = now + 1
    ELSE UNCHANGED <<file, chat_history, appended, now>>

\* What the generation call may do for this input: nothing when the branch
\* taken does not make it.
CompletionsFor(user_input) ==
    IF Resolve(prompts_db, model, chat_history, user_input, Raises).branch = "model"
    THEN Completions
    ELSE {Raises}

\* The ways lines 120-173 can end for this input.
Resolutions(user_input) ==
    {Resolve(prompts_db, model, chat_history, user_input, out) :
        out \in CompletionsFor(user_input)}

\* generate_response with the safety net of lines 186-188 taken away: what
\* is left of the response when the pipeline raised.
Returned_NoSafetyNet(r) == r.response

\* What generate_response returns: the apology when the pipeline raised
\* (lines 186-188), the resolved response otherwise (line 184).
Returned(r) == IF r.raised THEN Apology ELSE r.response

\* AIAssistant.generate_response run to its end by one thread, without a
\* display (self.oled is None); r is how lines 120-173 ended.
GenerateResponse(user_input, r) ==
    /\ gen_calls' = gen_calls + (IF r.branch = "model" THEN 1 ELSE 0)
    /\ IF r.raised
       THEN UNCHANGED <<file, chat_history, appended, now>>
       ELSE SaveToHistory(user_input, r.response)

(***************************************************************************)
(* Start-up                                                                *)
(***************************************************************************)
KbHello == W_Hi \o <<DOT>>
KbHelloAgain == W_hi \o <<SP>> \o W_hi \o <<DOT>>
KbJoke == W_long \o <<DOT, DOT>>

\* database/prompts.json as load_prompts_db may find it: missing or malformed
\* (the table stays empty), a table whose first two prompts overlap, a
\* table with an entry whose response is the empty string, and a table with
\* an entry that has no "prompt".
KbEmpty == <<>>
KbPlain ==
    << [prompt |-> W_Hi \o <<SP>> \o W_hi, response |-> KbHello],
       [prompt |-> W_hi, response |-> KbHelloAgain],
       [prompt |-> W_long \o <<DOT, DOT>>, response |-> KbJoke] >>
KbBlank ==
    << [prompt |-> W_long, response |-> KbJoke],
       [prompt |-> W_Hi, response |-> <<>>],
       [prompt |-> W_hi \o <<SP>> \o W_hi, response |-> KbHelloAgain] >>
KbBroken ==
    << [prompt |-> W_long, response |-> KbJoke],
       [response |-> KbHello] >>
KbTables == {KbEmpty, KbPlain, KbBlank, KbBroken}

\* No request is waiting.
NoRequest == [src |-> "none", kind |-> "none", text |-> <<>>]

\* The body of a POST /chat: not JSON, JSON that is no object, an object
\* without "message", or an object whose message is a text.
ChatRequests ==
    { [src |-> "web", kind |-> k, text |-> <<>>] :
          k \in {"malformed", "nonobject", "nomessage"} }
    \cup { [src |-> "web", kind |-> "message", text |-> t] : t \in Messages }

\* A line typed at the terminal prompt.
W_quit == <<"Q", "u", "i", "t">>
TerminalLines ==
    { [src |-> "term", kind |-> "message", text |-> t] :
          t \in Messages \cup {W_quit, <<"q">>} }

\* No resolution: generate_response was not called.
NotResolved ==
    [branch |-> "none", raised |-> FALSE, messages |-> <<>>, raw |-> <<>>,
     response |-> <<>>]

\* What a handler answered: the request it answered, the status and error of
\* the HTTP response (or what the terminal loop did), the response text, and
\* how generate_response resolved it.
Answer(request, status, error, response, r) ==
    [to |-> request, status |-> status, error |-> error, response |-> response,
     how |-> r]

NoReply == Answer(NoRequest, "none", "", <<>>, NotResolved)

\* What GET /history returned: the list in the body, for the request taken
\* as the nth.
Listing(nth, body) == [nth |-> nth, body |-> body]
NotListed == Listing(0, <<>>)

\* AIAssistant.__init__, but for the display.
InitAssistant ==
    /\ prompts_db \in KbTables
    /\ model \in BOOLEAN
    /\ chat_history = <<>>
    /\ appended = <<>>
    /\ gen_calls = 0
    /\ now = 0
    /\ reply = NoReply
    /\ listed = NotListed

(***************************************************************************)
(* Request handlers, each run to its end by one thread                     *)
(***************************************************************************)
\* chat(): POST /chat.
Chat ==
    /\ pending.src = "web"
    /\ pending' = NoRequest
    /\ UNCHANGED <<prompts_db, model, oled, listed, concVars, dispVars>>
    /\ IF pending.kind # "message" /\ pending.kind # "nomessage"
       THEN \* request.get_json() or data.get raises: lines 252-254
            /\ reply' = Answer(pending, "500", "Internal server error", <<>>,
                               NotResolved)
            /\ UNCHANGED <<chat_history, file, now, appended, gen_calls>>
       ELSE LET user_input == Strip(pending.text)
            IN  IF user_input = <<>>
                THEN /\ reply' = Answer(pending, "400", "No message provided",
                                        <<>>, NotResolved)
                     /\ UNCHANGED <<chat_history, file, now, appended, gen_calls>>
                ELSE \E r \in Resolutions(user_input) :
                         /\ GenerateResponse(user_input, r)
                         /\ reply' = Answer(pending, "200", "", Returned(r), r)

QuitWords == {<<"q", "u", "i", "t">>, <<"e", "x", "i", "t">>, <<"q">>}

\* One turn of terminal_interface's loop.
TerminalTurn ==
    /\ pending.src = "term"
    /\ pending' = NoRequest
    /\ UNCHANGED <<prompts_db, model, oled, listed, concVars, dispVars>>
    /\ LET user_input == Strip(pending.text)
       IN  IF Lower(user_input) \in QuitWords
           THEN /\ reply' = Answer(pending, "goodbye", "", <<>>, NotResolved)
                /\ UNCHANGED <<chat_history, file, now, appended, gen_calls>>
           ELSE IF user_input = <<>>
           THEN /\ reply' = Answer(pending, "skipped", "", <<>>, NotResolved)
                /\ UNCHANGED <<chat_history, file, now, appended, gen_calls>>
           ELSE \E r \in Resolutions(user_input) :
                    /\ GenerateResponse(user_input, r)
                    /\ reply' = Answer(pending, "printed", "", Returned(r), r)

\* status(): GET /status.
status ==
    [ai_model_loaded |-> model, oled_available |-> oled,
     chat_history_count |-> Len(chat_history)]

(***************************************************************************)
(* Spec: one request, of every shape, handled after start-up               *)
(***************************************************************************)
Init ==
    /\ InitAssistant
    /\ file = FileOf(<<>>)
    /\ pending \in ChatRequests \cup TerminalLines
    /\ thr = [t \in Threads |-> IdleThread]
    /\ taken = 0
    /\ InitNoDisplay

Next ==
    \/ Chat
    \/ TerminalTurn

Spec == Init /\ [][Next]_vars

(***************************************************************************)
(* SpecHist: a long sequence of requests after start-up.  Every request    *)
(* carries the same message and the model is not loaded, so that the       *)
(* window can be filled past its capacity; the exchanges differ by their   *)
(* timestamps.                                                             *)
(***************************************************************************)
\* Exchanges recorded before the run stops taking requests.
MaxAppends == 52
\* Records history.json may hold at start-up, written by an earlier run.
MaxPreexisting == 2

\* What an earlier run of the program left in history.json after k requests.
EarlierRecords(k) ==
    [i \in 1..k |-> [id |-> i, prompt |-> W_Hi, response |-> Fallback3]]

HistRequests ==
    { [src |-> "web", kind |-> "message", text |-> W_hi],
      [src |-> "web", kind |-> "message", text |-> <<SP>>],
      [src |-> "term", kind |-> "message", text |-> W_hi] }

InitHist ==
    /\ InitAssistant
    /\ prompts_db = KbEmpty
    /\ model = FALSE
    /\ file \in {FileOf(EarlierRecords(k)) : k \in 0..MaxPreexisting} \cup {MissingFile}
    /\ pending = NoRequest
    /\ thr = [t \in Threads |-> IdleThread]
    /\ taken = 0
    /\ InitNoDisplay

\* A request arrives: a POST /chat, or a line typed at the terminal.
Arrive ==
    /\ pending = NoRequest
    /\ Len(appended) < MaxAppends
    /\ pending' \in HistRequests
    /\ UNCHANGED <<appVars, reply, listed, concVars, dispVars>>

NextHist ==
    \/ Arrive
    \/ Chat
    \/ TerminalTurn

SpecHist == InitHist /\ [][NextHist]_vars

(***************************************************************************)
(* SpecConc: the request threads interleaved.  Each thread runs            *)
(* generate_response step by step: resolve, the generation call,           *)
(* save_to_history's read and rewrite of history.json, add_to_history.     *)
(* There is no lock anywhere in app.py.                                    *)
(***************************************************************************)
\* Requests the threads handle in all.
MaxConcRequests == 3

\* A message the knowledge base answers, and one it does not.
ConcMessages == {W_hi, W_hi \o <<SP>> \o W_long}
ConcCompletions == {Raises, Returns(W_hi \o <<SP>> \o W_long \o <<DOT, DOT, SP>> \o W_hi)}

CorruptFile == [state |-> "corrupt", recs |-> <<>>]

\* The characters json.dump(history, f, ensure_ascii=False, indent=2) writes
\* for one record around its id, prompt and response, and the digits of an id.
RecordFraming == 56
Digits(n) == IF n < 10 THEN 1 ELSE IF n < 100 THEN 2 ELSE 3

RECURSIVE RecordsSize(_)
RecordsSize(recs) ==
    IF recs = <<>> THEN 0
    ELSE RecordFraming + Digits(Head(recs).id) + Len(Head(recs).prompt)
             + Len(Head(recs).response) + 2 + RecordsSize(Tail(recs))

\* The length of the text of a list of records: "[]", or the records between
\* the brackets, a comma and a newline after each but the last.
JsonSize(recs) == IF recs = <<>> THEN 2 ELSE 2 + RecordsSize(recs)

\* json.dump after f.seek(0), without truncate: a text shorter than the one
\* in the file leaves the tail of the old text behind, which is no JSON.
Rewrite(old, recs) ==
    IF JsonSize(recs) < JsonSize(old.recs) THEN CorruptFile ELSE FileOf(recs)

\* A thread takes a request: chat() after its checks, or terminal_interface
\* after its checks, calls generate_response.
StartWithin(t, most) ==
    /\ thr[t].pc = "idle"
    /\ taken < most
    /\ taken' = taken + 1
    /\ \E m \in ConcMessages :
           thr' = [thr EXCEPT ![t] = [IdleThread EXCEPT !.pc = "resolve", !.input = m]]
    /\ UNCHANGED <<appVars, seqVars, dispVars>>

Start(t) == StartWithin(t, MaxConcRequests)

\* Lines 120-140: normalise, look the knowledge base up, take a branch; on
\* the model branch the thread goes on to call create_chat_completion.
ResolveStep(t) ==
    /\ thr[t].pc = "resolve"
    /\ LET r == Resolve(prompts_db, model, chat_history, thr[t].input, Raises)
       IN  IF r.branch = "model"
           THEN /\ thr' = [thr EXCEPT ![t].pc = "generating",
                                       ![t].messages = r.messages]
                /\ gen_calls' = gen_calls + 1
           ELSE IF r.raised
           THEN /\ thr' = [thr EXCEPT ![t] = IdleThread]
                /\ UNCHANGED gen_calls
           ELSE /\ thr' = [thr EXCEPT ![t].pc = "save_read", ![t].response = r.response]
                /\ UNCHANGED gen_calls
    /\ UNCHANGED <<prompts_db, model, oled, chat_history, file, now, appended,
                   taken, seqVars, dispVars>>

\* Lines 143-164: create_chat_completion returns and the response is cleaned
\* up, or it raises and generate_response returns the apology (lines 186-188).
GenerationEnds(t) ==
    /\ thr[t].pc = "generating"
    /\ \E out \in ConcCompletions :
           LET r == Resolve(prompts_db, model, chat_history, thr[t].input, out)
           IN  IF r.raised
               THEN thr' = [thr EXCEPT ![t] = IdleThread]
               ELSE thr' = [thr EXCEPT ![t].pc = "save_read", ![t].response = r.response]
    /\ UNCHANGED <<appVars, taken, seqVars, dispVars>>

\* Lines 204-210: build the entry, open history.json and json.load it; an
\* exception ends save_to_history (lines 215-216).
SaveRead(t) ==
    /\ thr[t].pc = "save_read"
    /\ IF file.state = "ok"
       THEN thr' = [thr EXCEPT ![t].pc = "save_write",
                               ![t].entry_id = Len(chat_history) + 1,
                               ![t].history = file.recs]
       ELSE thr' = [thr EXCEPT ![t] = IdleThread]
    /\ UNCHANGED <<appVars, taken, seqVars, dispVars>>

\* Lines 211-213: append the entry to the list read, and rewrite the file.
SaveWrite(t) ==
    /\ thr[t].pc = "save_write"
    /\ file' = Rewrite(file, Append(thr[t].history,
                   [id |-> thr[t].entry_id, prompt |-> thr[t].input,
                    response |-> thr[t].response]))
    /\ thr' = [thr EXCEPT ![t].pc = "add"]
    /\ UNCHANGED <<prompts_db, model, oled, chat_history, now, gen_calls, appended,
                   taken, seqVars, dispVars>>

\* Line 214: add_to_history; generate_response then returns.
AddToHistory(t) ==
    /\ thr[t].pc = "add"
    /\ chat_history' = add_to_history(chat_history,
                           Exchange(now, thr[t].input, thr[t].response))
    /\ appended' = Append(appended, Exchange(now, thr[t].input, thr[t].response))
    /\ now' = now + 1
    /\ thr' = [thr EXCEPT ![t] = IdleThread]
    /\ UNCHANGED <<prompts_db, model, oled, file, gen_calls, taken, seqVars,
                   dispVars>>

\* history(): GET /history, handled by one of Flask's threads; a failure to
\* open or parse history.json is answered with the empty list (lines 263-265).
History(t) ==
    /\ t # "term"
    /\ thr[t].pc = "idle"
    /\ taken < MaxConcRequests
    /\ taken' = taken + 1
    /\ listed' = Listing(taken + 1, IF file.state = "ok" THEN file.recs ELSE <<>>)
    /\ UNCHANGED <<appVars, pending, reply, thr, dispVars>>

InitConc ==
    /\ InitAssistant
    /\ prompts_db = KbPlain
    /\ model = TRUE
    /\ file = FileOf(<<>>)
    /\ pending = NoRequest
    /\ thr = [t \in Threads |-> IdleThread]
    /\ taken = 0
    /\ InitNoDisplay

NextConc ==
    \/ \E t \in Threads : Start(t)
    \/ \E t \in Threads : ResolveStep(t)
    \/ \E t \in Threads : GenerationEnds(t)
    \/ \E t \in Threads : SaveRead(t)
    \/ \E t \in Threads : SaveWrite(t)
    \/ \E t \in Threads : AddToHistory(t)
    \/ \E t \in Threads : History(t)

SpecConc == InitConc /\ [][NextConc]_vars

(***************************************************************************)
(* SpecWin: the request threads interleaved as in SpecConc, after an       *)
(* earlier sequence of requests has filled the window, and with            *)
(* add_to_history run step by step: the append, the test of the length,    *)
(* the slice and the assignment of the slice.                              *)
(***************************************************************************)
\* The most exchanges recorded before the threads start.
MaxPreloaded == 50
PreloadCounts == {0, 1, 3, MaxPreloaded}

\* The message of the ith earlier request, and what was recorded for it, in
\* the window and in history.json, by requests handled one after the other.
EarlierMessage(i) == IF i % 3 = 0 THEN W_hi ELSE IF i % 3 = 1 THEN W_Hi ELSE W_hii
EarlierResponse(i) == Resolve(KbPlain, TRUE, <<>>, EarlierMessage(i), Raises).response
EarlierExchange(i) == Exchange(i - 1, EarlierMessage(i), EarlierResponse(i))
EarlierWindow(k) ==
    IF k <= HistoryCap THEN [i \in 1..k |-> EarlierExchange(i)]
    ELSE [i \in 1..HistoryCap |-> EarlierExchange(k - HistoryCap + i)]
EarlierFile(k) ==
    FileOf([i \in 1..k |->
               [id |-> IF i <= HistoryCap THEN i ELSE HistoryCap + 1,
                prompt |-> EarlierMessage(i), response |-> EarlierResponse(i)]])

\* The threads at work in this run: one of Flask's and the terminal thread.
\* They handle as many requests as they are.
WinThreads == {"web1", "term"}
StartWin(t) == StartWithin(t, Cardinality(WinThreads))

\* Line 192: the exchange is appended to the list.
AddAppend(t) ==
    /\ thr[t].pc = "add"
    /\ chat_history' = Append(chat_history, Exchange(now, thr[t].input, thr[t].response))
    /\ appended' = Append(appended, Exchange(now, thr[t].input, thr[t].response))
    /\ now' = now + 1
    /\ thr' = [thr EXCEPT ![t].pc = "add_check"]
    /\ UNCHANGED <<prompts_db, model, oled, file, gen_calls, taken, seqVars,
                   dispVars>>

\* Line 198: the length of the list is tested; add_to_history returns when
\* it is not over 50, and generate_response after it.
AddCheck(t) ==
    /\ thr[t].pc = "add_check"
    /\ thr' = IF Len(chat_history) > HistoryCap
              THEN [thr EXCEPT ![t].pc = "add_slice"]
              ELSE [thr EXCEPT ![t] = IdleThread]
    /\ UNCHANGED <<appVars, taken, seqVars, dispVars>>

\* Line 199, right-hand side: the last 50 of the list as it is now.
AddSlice(t) ==
    /\ thr[t].pc = "add_slice"
    /\ thr' = [thr EXCEPT ![t].pc = "add_assign",
                          ![t].window = SubSeq(chat_history,
                                               Len(chat_history) - HistoryCap + 1,
                                               Len(chat_history))]
    /\ UNCHANGED <<appVars, taken, seqVars, dispVars>>

\* Line 199, assignment: the slice becomes the list.
AddAssign(t) ==
    /\ thr[t].pc = "add_assign"
    /\ chat_history' = thr[t].window
    /\ thr' = [thr EXCEPT ![t] = IdleThread]
    /\ UNCHANGED <<prompts_db, model, oled, file, now, gen_calls, appended,
                   taken, seqVars, dispVars>>

InitWin ==
    /\ prompts_db = KbPlain
    /\ model = TRUE
    /\ \E k \in PreloadCounts :
           /\ chat_history = EarlierWindow(k)
           /\ appended = [i \in 1..k |-> EarlierExchange(i)]
           /\ file = EarlierFile(k)
           /\ now = k
    /\ gen_calls = 0
    /\ reply = NoReply
    /\ listed = NotListed
    /\ pending = NoRequest
    /\ thr = [t \in Threads |-> IdleThread]
    /\ taken = 0
    /\ InitNoDisplay

NextWin ==
    \/ \E t \in WinThreads : StartWin(t)
    \/ \E t \in WinThreads : ResolveStep(t)
    \/ \E t \in WinThreads : GenerationEnds(t)
    \/ \E t \in WinThreads : SaveRead(t)
    \/ \E t \in WinThreads : SaveWrite(t)
    \/ \E t \in WinThreads : AddAppend(t)
    \/ \E t \in WinThreads : AddCheck(t)
    \/ \E t \in WinThreads : AddSlice(t)
    \/ \E t \in WinThreads : AddAssign(t)

SpecWin == InitWin /\ [][NextWin]_vars

(***************************************************************************)
(* SpecDisp: the expression controller.  One POST /chat and one terminal   *)
(* line are handled by their threads, with a display attached; every       *)
(* show_expression call runs step by step beside the animation threads     *)
(* and the idle timers.  A request's thinking call starts the animation    *)
(* thread named after the request.                                         *)
(***************************************************************************)
\* join(timeout=0.5) at line 118 and time.sleep(0.8) at line 190, in tenths
\* of a second.
JoinTimeout == 5
FrameSleep == 8

\* An animation thread is at the loop test ("check", line 150), drawing a
\* frame ("render", lines 151-187) or in its sleep (line 190): "sleep", and
\* "sleep_late" once a join on it has timed out during this sleep.
Asleep(a) == anim[a] \in {"sleep", "sleep_late"}

\* threading.Thread.is_alive(): started and not yet finished.
IsAlive(a) == a # "none" /\ anim[a] \in {"check", "render", "sleep", "sleep_late"}

\* A join that begins after another join has timed out during the same sleep
\* does not time out before that sleep ends, two timeouts being longer than
\* one sleep.
BeginsLate(a) ==
    a # "none" /\ anim[a] = "sleep_late" /\ 2 * JoinTimeout > FrameSleep

\* join (line 118) returns: there was nothing to join, the thread has ended,
\* or the timeout ran out while the thread slept.
TimesOut(c) == c.joinee # "none" /\ Asleep(c.joinee) /\ ~c.late
JoinReturns(c) ==
    IF c.joinee = "none" THEN TRUE
    ELSE anim[c.joinee] = "dead" \/ TimesOut(c)

\* A step of the call is possible.
CanStep(c) ==
    IF c.step = "act" THEN JoinReturns(c) ELSE c.step # "returned"

\* The call after its next step.  Line 117 reads animation_thread.
CallAfter(c) ==
    IF c.step = "enter" THEN [c EXCEPT !.step = "check"]
    ELSE IF c.step = "check"
    THEN [c EXCEPT !.step = "act",
                   !.joinee = IF IsAlive(animation_thread)
                              THEN animation_thread ELSE "none",
                   !.late = BeginsLate(animation_thread)]
    ELSE [c EXCEPT !.step = "returned"]

\* The animation threads after the call acts: a timed-out join leaves its
\* thread late in its sleep, and a thinking call starts the thread of r.
AnimAfterAct(c, r) ==
    [a \in Requests |->
        IF a = r /\ c.expr = "thinking" THEN "check"
        ELSE IF a = c.joinee /\ TimesOut(c) THEN "sleep_late"
        ELSE anim[a]]

\* What one step of a show_expression call does to the display; c is the
\* call and r the request whose thread makes it.
\* enter: lines 113-116.  check: line 117.  act: lines 118-127.
ShowStep(c, r) ==
    IF c.step = "enter"
    THEN /\ current_expression' = c.expr
         /\ stop_animation' = TRUE
         /\ UNCHANGED <<animation_thread, anim, shown>>
    ELSE IF c.step = "check"
    THEN UNCHANGED <<current_expression, stop_animation, animation_thread, anim,
                     shown>>
    ELSE IF c.expr = "thinking"
    THEN /\ stop_animation' = FALSE
         /\ animation_thread' = r
         /\ anim' = AnimAfterAct(c, r)
         /\ UNCHANGED <<current_expression, shown>>
    ELSE /\ shown' = c.expr
         /\ anim' = AnimAfterAct(c, r)
         /\ UNCHANGED <<current_expression, stop_animation, animation_thread>>

\* The call acts (starts the animation or renders the static frame) while the
\* animation thread it found running is still alive.
ActsOverLiveAnimation(c) == c.step = "act" /\ IsAlive(c.joinee)

\* The calls once animation thread a has left its sleep: a join on it can
\* time out during its next sleep.
Woken(c, a) == IF c.joinee = a THEN [c EXCEPT !.late = FALSE] ELSE c

\* A request arrives: chat() shows "listening" (lines 237-238) and calls
\* generate_response; the terminal loop calls generate_response at once,
\* which shows "thinking" (lines 116-117).
RequestArrives(r) ==
    /\ req[r].phase = "new"
    /\ req' = [req EXCEPT ![r].phase = IF r = "web" THEN "listening" ELSE "thinking",
                          ![r].call = CallOf(IF r = "web" THEN "listening"
                                                           ELSE "thinking")]
    /\ UNCHANGED <<current_expression, stop_animation, animation_thread, anim,
                   shown, tim, obs>>
    /\ UNCHANGED <<appVars, seqVars, concVars>>

\* The thread of request r takes a step of its show_expression call.
RequestShows(r) ==
    /\ req[r].phase \in {"listening", "thinking", "speaking"}
    /\ CanStep(req[r].call)
    /\ ShowStep(req[r].call, r)
    /\ req' = [req EXCEPT ![r].call = CallAfter(req[r].call),
                          ![r].spoke = req[r].spoke
                              \/ (req[r].phase = "speaking" /\ req[r].call.step = "act"),
                          ![r].emitted = IF req[r].call.step = "enter"
                                         THEN Append(req[r].emitted, req[r].call.expr)
                                         ELSE req[r].emitted]
    /\ obs' = [obs EXCEPT !.raced = obs.raced \/ ActsOverLiveAnimation(req[r].call),
                          !.latest = IF req[r].call.step = "act" THEN r ELSE obs.latest]
    /\ UNCHANGED tim
    /\ UNCHANGED <<appVars, seqVars, concVars>>

\* show_expression has returned: chat() goes from "listening" into
\* generate_response, which shows "thinking"; after that the response is
\* resolved (lines 120-176).
RequestGoesOn(r) ==
    /\ req[r].phase \in {"listening", "thinking"}
    /\ req[r].call.step = "returned"
    /\ req' = [req EXCEPT ![r].phase = IF req[r].phase = "listening"
                                       THEN "thinking" ELSE "resolve",
                          ![r].call = IF req[r].phase = "listening"
                                      THEN CallOf("thinking") ELSE NoCall]
    /\ UNCHANGED <<current_expression, stop_animation, animation_thread, anim,
                   shown, tim, obs>>
    /\ UNCHANGED <<appVars, seqVars, concVars>>

\* Lines 120-180: the response is resolved and saved, and "speaking" is shown.
RequestResolved(r) ==
    /\ req[r].phase = "resolve"
    /\ req' = [req EXCEPT ![r].phase = "speaking", ![r].call = CallOf("speaking")]
    /\ UNCHANGED <<current_expression, stop_animation, animation_thread, anim,
                   shown, tim, obs>>
    /\ UNCHANGED <<appVars, seqVars, concVars>>

\* Lines 186-188: a step of lines 120-176 raised; generate_response returns
\* the apology.
RequestRaises(r) ==
    /\ req[r].phase = "resolve"
    /\ req' = [req EXCEPT ![r].phase = "done"]
    /\ UNCHANGED <<current_expression, stop_animation, animation_thread, anim,
                   shown, tim, obs>>
    /\ UNCHANGED <<appVars, seqVars, concVars>>

\* Line 182: threading.Timer(3.0, ...).start(); generate_response returns.
TimerStarted(r) ==
    /\ req[r].phase = "speaking"
    /\ req[r].call.step = "returned"
    /\ req' = [req EXCEPT ![r].phase = "done", ![r].call = NoCall]
    /\ tim' = [tim EXCEPT ![r].phase = "armed"]
    /\ UNCHANGED <<current_expression, stop_animation, animation_thread, anim,
                   shown, obs>>
    /\ UNCHANGED <<appVars, seqVars, concVars>>

\* The three seconds are over: the timer's thread calls show_expression("idle").
TimerFires(r) ==
    /\ tim[r].phase = "armed"
    /\ tim' = [tim EXCEPT ![r].phase = "showing", ![r].call = CallOf("idle")]
    /\ UNCHANGED <<current_expression, stop_animation, animation_thread, anim,
                   shown, req, obs>>
    /\ UNCHANGED <<appVars, seqVars, concVars>>

\* The timer's thread takes a step of its show_expression("idle") call.
TimerShows(r) ==
    /\ tim[r].phase = "showing"
    /\ CanStep(tim[r].call)
    /\ ShowStep(tim[r].call, r)
    /\ tim' = [tim EXCEPT ![r].call = CallAfter(tim[r].call),
                          ![r].phase = IF tim[r].call.step = "act"
                                       THEN "done" ELSE "showing"]
    /\ obs' = [obs EXCEPT !.raced = obs.raced \/ ActsOverLiveAnimation(tim[r].call),
                          !.overrode = obs.overrode
                              \/ (tim[r].call.step = "act" /\ obs.latest # r)]
    /\ UNCHANGED req
    /\ UNCHANGED <<appVars, seqVars, concVars>>

\* Line 150: the animation loop, just started or back from its sleep, tests
\* stop_animation.
AnimationPolls(a) ==
    /\ anim[a] = "check" \/ Asleep(a)
    /\ anim' = [anim EXCEPT ![a] = IF stop_animation THEN "dead" ELSE "render"]
    /\ req' = [r \in Requests |-> [req[r] EXCEPT !.call = Woken(req[r].call, a)]]
    /\ tim' = [r \in Requests |-> [tim[r] EXCEPT !.call = Woken(tim[r].call, a)]]
    /\ UNCHANGED <<current_expression, stop_animation, animation_thread, shown, obs>>
    /\ UNCHANGED <<appVars, seqVars, concVars>>

\* Lines 151-190: the loop draws a thinking frame and goes to sleep.
AnimationRenders(a) ==
    /\ anim[a] = "render"
    /\ shown' = "thinking"
    /\ anim' = [anim EXCEPT ![a] = "sleep"]
    /\ obs' = [obs EXCEPT !.late = obs.late \/ req[a].spoke]
    /\ UNCHANGED <<current_expression, stop_animation, animation_thread, req, tim>>
    /\ UNCHANGED <<appVars, seqVars, concVars>>

\* AIAssistant.__init__ with the display: OLEDDisplay() and
\* show_expression("idle") (lines 56-57).
InitDisp ==
    /\ InitAssistant
    /\ prompts_db = KbEmpty
    /\ model = TRUE
    /\ oled = TRUE
    /\ current_expression = "idle"
    /\ stop_animation = TRUE
    /\ animation_thread = "none"
    /\ shown = "idle"
    /\ InitDisplayIdle
    /\ file = FileOf(<<>>)
    /\ pending = NoRequest
    /\ thr = [t \in Threads |-> IdleThread]
    /\ taken = 0

NextDisp ==
    \/ \E r \in Requests : RequestArrives(r)
    \/ \E r \in Requests : RequestShows(r)
    \/ \E r \in Requests : RequestGoesOn(r)
    \/ \E r \in Requests : RequestResolved(r)
    \/ \E r \in Requests : RequestRaises(r)
    \/ \E r \in Requests : TimerStarted(r)
    \/ \E r \in Requests : TimerFires(r)
    \/ \E r \in Requests : TimerShows(r)
    \/ \E a \in Requests : AnimationPolls(a)
    \/ \E a \in Requests : AnimationRenders(a)

SpecDisp == InitDisp /\ [][NextDisp]_vars

(***************************************************************************)
(* SpecDispFair: SpecDisp with the threads scheduled fairly.  Every thread *)
(* that can take a step takes it in the end: the request threads, the      *)
(* timers' threads and the animation threads.  Whether a request arrives   *)
(* is left open.                                                           *)
(***************************************************************************)
FairDisp ==
    \A r \in Requests :
        /\ WF_vars(RequestShows(r))
        /\ WF_vars(RequestGoesOn(r))
        /\ WF_vars(RequestResolved(r) \/ RequestRaises(r))
        /\ WF_vars(TimerStarted(r))
        /\ WF_vars(TimerFires(r))
        /\ WF_vars(TimerShows(r))
        /\ WF_vars(AnimationPolls(r))
        /\ WF_vars(AnimationRenders(r))

SpecDispFair == InitDisp /\ [][NextDisp]_vars /\ FairDisp

(***************************************************************************)
(* Properties of Spec                                                      *)
(***************************************************************************)
\* The request the last reply answers carried a message that is empty once
\* trimmed.
BlankChat(request) ==
    /\ request.src = "web"
    /\ request.kind = "message"
    /\ \A i \in 1..Len(request.text) : request.text[i] = SP

\* C8: a POST /chat whose message is empty or whitespace-only is answered
\* 400 {"error": "No message provided"}, and handling it changes neither the
\* in-memory window nor the persisted history nor the number of generation
\* calls.
C8_BlankMessageRejected ==
    [][BlankChat(pending) =>
         /\ reply'.status = "400"
         /\ reply'.error = "No message provided"
         /\ UNCHANGED <<chat_history, file, appended, gen_calls>>]_vars

\* A whitespace-only message (not merely an empty one) has been answered 400.
C8_Witness ==
    /\ BlankChat(reply.to)
    /\ reply.to.text # <<>>
    /\ reply.status = "400"

\* The normalised input of the answered request, as generate_response
\* computes it from the trimmed message.
NormalizedInput(request) == fix_typo(Strip(request.text))

\* The entries whose prompt contains the text, case-insensitively.
MatchingEntries(db, t) ==
    {i \in 1..Len(db) :
        "prompt" \in DOMAIN db[i] /\ Contains(Lower(db[i].prompt), Lower(t))}

MinOf(S) == CHOOSE i \in S : \A j \in S : i <= j

\* C9: when the normalised input is a case-insensitive substring of the
\* prompt of some knowledge-base entry, the response returned is that of the
\* first such entry in table order, and no generation call is made.
C9_KbHitBypassesModel ==
    LET hits == MatchingEntries(prompts_db, NormalizedInput(reply.to))
    IN  (reply.how.branch # "none" /\ hits # {}) =>
            /\ reply.response = prompts_db[MinOf(hits)].response
            /\ gen_calls = 0

\* C10: on the model path, a generated output that (after sentence trimming)
\* is a case-insensitive substring of the input, or is shorter than 15
\* characters, is replaced by the clarification string.
C10_EchoOrShortReplaced ==
    LET output == CleanUp(reply.how.raw)
        input == NormalizedInput(reply.to)
    IN  (/\ reply.how.branch = "model"
         /\ ~reply.how.raised
         /\ \/ Contains(Lower(input), Lower(output))
            \/ Len(output) < 15)
        => reply.response = Clarification

\* The answered request went through generate_response.
Resolved(a) == a.how.branch # "none"

\* C11: when the lookup finds no knowledge-base entry that matches, and the
\* model is not loaded or the generation call raises, the response is the
\* canned response at index (length of the normalised input modulo 4) of the
\* fixed set.
C11_UnavailableIsCannedByLength ==
    LET input == NormalizedInput(reply.to)
    IN  (/\ Resolved(reply)
         /\ reply.how.branch # "kb"
         /\ MatchingEntries(prompts_db, input) = {}
         /\ ~model \/ reply.how.raised)
        => reply.response = fallback_responses[(Len(input) % 4) + 1]

\* C12: when a step of the resolution pipeline raises, generate_response
\* returns the fixed apology string; POST /chat then answers 200 with that
\* string, never 500, and the terminal loop prints it.
C12_PipelineFailureIsApology ==
    (Resolved(reply) /\ reply.how.raised) =>
        /\ reply.response = Apology
        /\ reply.status = IF reply.to.src = "web" THEN "200" ELSE "printed"
        /\ reply.error = ""

\* A POST /chat whose generation call, or the post-processing of what it
\* returned, raised has been answered with the apology.
C12_Witness ==
    /\ reply.to.src = "web"
    /\ reply.how.raised
    /\ reply.how.branch = "model"
    /\ reply.response = Apology

\* The body of the request is not valid JSON, or is JSON but not an object
\* with a message field.
MalformedChat(request) ==
    request.src = "web" /\ request.kind \in {"malformed", "nonobject", "nomessage"}

\* The 4xx statuses.
ClientErrors == {"400", "415", "422"}

\* C14: a POST /chat whose body is malformed is answered with a 4xx status
\* and an error body, and appends nothing to history.
C14_MalformedBodyIsClientError ==
    [][MalformedChat(pending) =>
         /\ reply'.status \in ClientErrors
         /\ reply'.error # ""
         /\ UNCHANGED <<chat_history, file, appended>>]_vars

\* C20: without a display device, every expression state of a request is
\* still rendered as text: once a request has been answered with a resolved
\* response, its speaking state (or the idle state after it) has been
\* rendered, also when the display component could not be imported or
\* initialised (self.oled is None).
C20_HeadlessStillRenders ==
    (~oled /\ Resolved(reply) /\ ~reply.how.raised) => shown \in {"speaking", "idle"}

(***************************************************************************)
(* Properties of SpecHist                                                  *)
(***************************************************************************)
\* The last n elements of a sequence (all of them when it has fewer).
LastN(q, n) == IF Len(q) <= n THEN q ELSE SubSeq(q, Len(q) - n + 1, Len(q))

\* C6: the in-memory window holds at most 50 exchanges, and they are the most
\* recently appended min(n, 50) exchanges, in the order they were appended.
C6_WindowIsLast50 ==
    /\ Len(chat_history) <= 50
    /\ chat_history = LastN(appended, 50)

\* More than 50 exchanges have been appended: the oldest have been evicted.
C6_Witness ==
    /\ Len(appended) > 50
    /\ Len(chat_history) = 50
    /\ chat_history[1] # appended[1]

MaxId(recs) ==
    IF recs = <<>> THEN 0
    ELSE CHOOSE m \in {recs[i].id : i \in 1..Len(recs)} :
             \A i \in 1..Len(recs) : recs[i].id <= m

\* C7: a record appended to the persisted history gets the id
\* max(existing ids) + 1, or 1 when the persisted list is empty.
C7_IdIsMaxPlusOne ==
    [][file'.recs # file.recs =>
         file'.recs[Len(file'.recs)].id = MaxId(file.recs) + 1]_vars

\* This step handles the waiting request, and generate_response resolves a
\* response for it (none of its steps raises).
HandledWithResponse ==
    /\ pending # NoRequest
    /\ pending' = NoRequest
    /\ Resolved(reply')
    /\ ~reply'.how.raised

\* The last exchange of the window is the one of the request just answered.
LastExchangeIs(history, a) ==
    /\ history # <<>>
    /\ history[Len(history)].user = Strip(a.to.text)
    /\ history[Len(history)].assistant = a.response

\* C13: when history.json cannot be read during an append, the request still
\* returns its resolved response and the exchange is still added to the
\* in-memory window.
C13_AppendDegradesToMemory ==
    [][(HandledWithResponse /\ file.state # "ok") =>
         /\ reply'.response = reply'.how.response
         /\ Len(chat_history') = Len(chat_history) + 1
         /\ LastExchangeIs(chat_history', reply')]_vars

\* C15: after a POST /chat with a non-empty message completes with a
\* resolved response, the chat_history_count of /status is one greater than
\* before, whatever the number of exchanges already recorded.
C15_StatusCountGrowsByOne ==
    [][(HandledWithResponse /\ pending.src = "web") =>
         status'.chat_history_count = status.chat_history_count + 1]_vars

(***************************************************************************)
(* Properties of SpecConc                                                  *)
(***************************************************************************)
\* C1: history appends are serialised, so that once every thread has
\* finished, the persisted list holds one record for every exchange appended.
C1_NoLostAppend ==
    (\A t \in Threads : thr[t].pc = "idle") =>
        /\ file.state = "ok"
        /\ Len(file.recs) = Len(appended)

\* C2: at most one create_chat_completion call is executing at any time.
C2_OneGenerationAtATime ==
    Cardinality({t \in Threads : thr[t].pc = "generating"}) <= 1

\* C16: GET /history returns the persisted list when history.json is
\* readable, and the in-memory window otherwise: when the file is unreadable
\* and the window holds exchanges, the listing holds those exchanges.
C16_ListingFallsBackToWindow ==
    [][listed' # listed =>
         listed'.body = IF file.state = "ok" THEN file.recs ELSE chat_history]_vars

\* Thread t rewrites history.json in this step, and save_to_history goes on
\* to add_to_history: no exception was raised.
SaveSucceeds(t) == thr[t].pc = "save_write" /\ thr'[t].pc = "add"

\* q is p with exactly one element more, at the end.
OneMoreAtEnd(p, q) ==
    /\ Len(q) = Len(p) + 1
    /\ SubSeq(q, 1, Len(p)) = p

\* C22: after save_to_history succeeds, the persisted list is the list the
\* call read with exactly one new record at the end, every record persisted
\* before being unchanged and in the same position.
C22_AppendOnlyAdds ==
    [][\A t \in Threads :
           SaveSucceeds(t) =>
               /\ file'.state = "ok"
               /\ OneMoreAtEnd(thr[t].history, file'.recs)]_vars

\* The (user, assistant) pair of the exchange occurs in the persisted list.
Persisted(exchange) ==
    /\ file.state = "ok"
    /\ \E j \in 1..Len(file.recs) :
           /\ file.recs[j].prompt = exchange.user
           /\ file.recs[j].response = exchange.assistant

\* C24: in every reachable state, the (user, assistant) pair of each
\* exchange held in the in-memory window occurs in the persisted list.
C24_WindowIsPersisted ==
    \A i \in 1..Len(chat_history) : Persisted(chat_history[i])

(***************************************************************************)
(* Properties of SpecWin                                                   *)
(***************************************************************************)
\* C17: for any interleaving of add_to_history calls, once they have
\* returned the window holds at most 50 exchanges and no appended exchange
\* is missing from it other than the oldest beyond 50.
C17_WindowSurvivesInterleaving ==
    (\A t \in Threads : thr[t].pc = "idle") =>
        /\ Len(chat_history) <= 50
        /\ chat_history = LastN(appended, 50)

\* The turn at position j (from 1) among those of the last k exchanges of
\* the window: a user turn, then the assistant turn of the same exchange.
TurnAt(window, k, j) ==
    LET e == window[Len(window) - k + ((j + 1) \div 2)]
    IN  IF j % 2 = 1 THEN Message("user", e.user)
        ELSE Message("assistant", e.assistant)

\* The context C19 describes for a window and a normalised input.
ContextFor(window, input) ==
    LET k == IF Len(window) < 2 THEN Len(window) ELSE 2
    IN  << Message("system", SystemInstruction) >>
            \o [j \in 1..(2 * k) |-> TurnAt(window, k, j)]
            \o << Message("user", input) >>

\* Thread t goes into the generation call in this step.
CallsModel(t) == thr[t].pc = "resolve" /\ thr'[t].pc = "generating"

\* C19: the messages given to the generation call are the system
\* instruction, then the most recent min(2, n) exchanges of the window in
\* order, each as a user turn and its assistant turn, then the normalised
\* input as the last user turn.
C19_ContextIsLastTwoExchanges ==
    [][\A t \in Threads :
           CallsModel(t) =>
               thr'[t].messages = ContextFor(chat_history, fix_typo(thr[t].input))]_vars

\* A thread is in the generation call with two exchanges of context, taken
\* from a window that holds more than two.
C19_Witness ==
    \E t \in Threads :
        /\ thr[t].pc = "generating"
        /\ Len(thr[t].messages) = 6
        /\ Len(chat_history) > 2
        /\ thr[t].messages[2].content # thr[t].messages[4].content

(***************************************************************************)
(* Properties of SpecDisp                                                  *)
(***************************************************************************)
\* C3: show_expression renders the new expression, or starts the new
\* animation, only after the animation it found running has terminated.
C3_ActsAfterAnimationEnded == ~obs.raced

\* C4: once the speaking frame of a request has been rendered, the thinking
\* animation of that request renders no further frame.
C4_NoThinkingFrameAfterSpeaking == ~obs.late

\* C5: the idle reversion a request scheduled takes effect only if no
\* expression event of another request came after that request's speaking.
C5_IdleOnlyIfNotSuperseded == ~obs.overrode

\* Request r has been answered with a resolved response: its speaking
\* expression was shown and its idle timer started.
Answered(r) == req[r].phase = "done" /\ tim[r].phase # "off"

\* C18: every request, from POST /chat or from the terminal loop, emits
\* listening on receipt, thinking before the response is resolved and
\* speaking after it is produced, in this order.
C18_ListeningThinkingSpeaking ==
    \A r \in Requests :
        Answered(r) => req[r].emitted = <<"listening", "thinking", "speaking">>

\* Animation thread a draws a frame in this step.
DrawsFrame(a) == anim[a] = "render" /\ anim'[a] = "sleep"

\* C21: at most one thinking animation runs at any time: an animation
\* thread started earlier never draws a frame while the one started last
\* (the one animation_thread names) is alive.
C21_OneAnimationAtATime ==
    [][\A a \in Requests :
           DrawsFrame(a) => (a = animation_thread \/ ~IsAlive(animation_thread))]_vars

(***************************************************************************)
(* Properties of SpecDispFair                                              *)
(***************************************************************************)
\* No request other than r ever arrives.
Alone(r) == [](\A q \in Requests \ {r} : req[q].phase = "new")

\* The thinking animation of r has stopped and the expression is idle again.
BackToIdle(r) ==
    /\ ~IsAlive(r)
    /\ current_expression = "idle"
    /\ shown = "idle"

\* C23: with no further requests, every generate_response call that has
\* entered the thinking state is eventually followed by its thinking
\* animation stopping and the expression returning to idle, on every exit
\* path, the one that returns the apology included.
C23_ThinkingEndsInIdle ==
    \A r \in Requests :
        Alone(r) => ((req[r].phase = "resolve") ~> BackToIdle(r))

====
